---- MODULE Spec2Model ----
(***************************************************************************)
(* Model of the batch pipeline of openspec-flow:                           *)
(*   batchCommand -> buildExecutionPlan (topologicalSort,                  *)
(*   identifyParallelBatches) -> validateExecutionPlan ->                  *)
(*   executeExecutionPlan (initializeSwarm, executeParallelBatch,          *)
(*   executeChange).                                                       *)
(*                                                                         *)
(* Change ids are naturals: the k-th loaded change has id k (the code      *)
(* never orders or inspects ids, it only compares them for equality, so    *)
(* the numbering loses nothing).  Id NotInBatch stands for an id that a    *)
(* proposal names but that is not among the loaded changes.                *)
(***************************************************************************)
EXTENDS Integers, Sequences, FiniteSets, TLC

\* ---- bound of the model ----
\* size of the input of one batch command: the number of loaded changes plus the
\* number of "Requires:" lines in their proposals
MaxInput == 6

\* An id named by a proposal that is no loaded change.
NotInBatch == 0

\* Largest timeoutMs passed to waitForTaskCompletion (clock ticks).
MaxTimeout == 3

\* Largest pollIntervalMs passed to waitForTaskCompletion (clock ticks).
MaxInterval == 2

\* Longest time a status poll takes, and longest lateness of a timer (clock ticks).
MaxDelay == 2

VARIABLES
    changes,           \* OpenSpecChange[] loaded by batchCommand
    pc,                \* position of batchCommand / executeExecutionPlan
    plan,              \* ExecutionPlan {changes, executionOrder, parallelBatches}
    validation,        \* result of validateExecutionPlan
    swarmState,        \* SwarmState {status, agents}
    i,                 \* batch loop index of executeExecutionPlan (1-based)
    completedChanges,  \* string[] of executeExecutionPlan
    failedChanges,     \* string[] of executeExecutionPlan
    exec,              \* per node: state of its executeChange promise
    taskOutcome,       \* per node: how its submitted task ends in the remote service
    result,            \* BatchExecutionResult returned by executeExecutionPlan
    wpc,               \* position of a call of waitForTaskCompletion
    timeoutMs,         \* its parameter timeoutMs
    pollIntervalMs,    \* its parameter pollIntervalMs
    elapsed,           \* Date.now() - startTime
    taskInfo,          \* status of the last getTaskStatus and the clock at its return
    calls,             \* tools of the remote service called so far
    waitResult         \* value returned by waitForTaskCompletion

waitVars == <<wpc, timeoutMs, pollIntervalMs, elapsed, taskInfo, calls, waitResult>>

vars == <<changes, pc, plan, validation, swarmState, i, completedChanges,
          failedChanges, exec, taskOutcome, result,
          wpc, timeoutMs, pollIntervalMs, elapsed, taskInfo, calls, waitResult>>

\* ---- generic helpers ----
Range(s) == {s[k] : k \in DOMAIN s}

Includes(s, x) == \E k \in DOMAIN s : s[k] = x

RECURSIVE SumLen(_, _)
SumLen(cs, k) == IF k > Len(cs) THEN 0 ELSE Len(cs[k].requires) + SumLen(cs, k + 1)

\* ---- JavaScript Map (insertion ordered) as a sequence of entries ----
MapHas(m, k) == \E j \in DOMAIN m : m[j].key = k

MapGetOr0(m, k) == IF MapHas(m, k) THEN m[CHOOSE j \in DOMAIN m : m[j].key = k].val ELSE 0

MapSet(m, k, v) ==
    IF MapHas(m, k)
    THEN [j \in DOMAIN m |-> IF m[j].key = k THEN [key |-> k, val |-> v] ELSE m[j]]
    ELSE Append(m, [key |-> k, val |-> v])

\* ---- dependencyResolver.ts ----

\* The Dependencies section of a proposal is modelled by the list of ids its
\* "Requires:" / "Depends on:" lines match, in text order; every match is pushed.
extractDependencies(change) ==
    [changeId |-> change.changeId, dependsOn |-> change.requires]

\* nodes of buildExecutionPlan: one pending ExecutionNode per change
MakeNodes(cs) ==
    [k \in DOMAIN cs |->
        [changeId |-> cs[k].changeId,
         dependsOn |-> extractDependencies(cs[k]).dependsOn,
         status |-> "pending",
         error |-> ""]]

NodeIds(nodes) == {nodes[k].changeId : k \in DOMAIN nodes}

\* inner loop of the in-degree calculation, over node.dependsOn[j..];
\* nodeMap is the key set of the Map built from nodes
RECURSIVE CountDeps(_, _, _, _)
CountDeps(inDegree, node, j, nodeMap) ==
    IF j > Len(node.dependsOn) THEN inDegree
    ELSE LET dep == node.dependsOn[j] IN
         IF dep \in nodeMap
         THEN LET m1 == MapSet(inDegree, dep, MapGetOr0(inDegree, dep))
                  m2 == MapSet(m1, node.changeId, MapGetOr0(m1, node.changeId) + 1)
              IN CountDeps(m2, node, j + 1, nodeMap)
         ELSE CountDeps(inDegree, node, j + 1, nodeMap)

RECURSIVE CalcInDegreeFrom(_, _, _, _)
CalcInDegreeFrom(inDegree, nodes, k, nodeMap) ==
    IF k > Len(nodes) THEN inDegree
    ELSE LET m0 == IF MapHas(inDegree, nodes[k].changeId) THEN inDegree
                   ELSE MapSet(inDegree, nodes[k].changeId, 0)
         IN CalcInDegreeFrom(CountDeps(m0, nodes[k], 1, nodeMap), nodes, k + 1, nodeMap)

\* mutant: no prerequisite is ever counted
CalcInDegreeNoCount(nodes) ==
    LET m == CalcInDegreeFrom(<<>>, nodes, 1, NodeIds(nodes))
    IN [j \in DOMAIN m |-> [key |-> m[j].key, val |-> 0]]

CalcInDegree(nodes) == CalcInDegreeFrom(<<>>, nodes, 1, NodeIds(nodes))

\* "Find nodes with no dependencies": entries of the map, in insertion order
RECURSIVE ZeroDegree(_, _)
ZeroDegree(inDegree, j) ==
    IF j > Len(inDegree) THEN <<>>
    ELSE (IF inDegree[j].val = 0 THEN <<inDegree[j].key>> ELSE <<>>)
         \o ZeroDegree(inDegree, j + 1)

\* "Find nodes that depend on this one": loop over nodes[k..]
RECURSIVE Decrement(_, _, _, _)
Decrement(st, nodes, k, changeId) ==
    IF k > Len(nodes) THEN st
    ELSE IF Includes(nodes[k].dependsOn, changeId)
         THEN LET newDegree == MapGetOr0(st.inDegree, nodes[k].changeId) - 1
                  st1 == [inDegree |-> MapSet(st.inDegree, nodes[k].changeId, newDegree),
                          queue |-> IF newDegree = 0
                                    THEN Append(st.queue, nodes[k].changeId)
                                    ELSE st.queue]
              IN Decrement(st1, nodes, k + 1, changeId)
         ELSE Decrement(st, nodes, k + 1, changeId)

\* "Process nodes": while (queue.length > 0)
RECURSIVE ProcessQueue(_, _, _, _)
ProcessQueue(queue, sorted, inDegree, nodes) ==
    IF Len(queue) = 0 THEN sorted
    ELSE LET changeId == Head(queue)
             st == Decrement([inDegree |-> inDegree, queue |-> Tail(queue)],
                             nodes, 1, changeId)
         IN ProcessQueue(st.queue, Append(sorted, changeId), st.inDegree, nodes)

KahnOrder(nodes) ==
    LET inDegree == CalcInDegree(nodes)
    IN ProcessQueue(ZeroDegree(inDegree, 1), <<>>, inDegree, nodes)

\* mutant: the cycle check is dropped, whatever was sorted is returned
topologicalSortNoCheck(nodes) == [threw |-> FALSE, sorted |-> KahnOrder(nodes)]

\* threw: the 'Circular dependency detected' Error
topologicalSort(nodes) ==
    LET sorted == KahnOrder(nodes)
    IN [threw |-> Len(sorted) # Len(nodes), sorted |-> sorted]

NodeOf(nodes, id) == nodes[CHOOSE k \in DOMAIN nodes : nodes[k].changeId = id]

\* mutant: no batch ever conflicts
hasConflictNever(batch, node, nodes) == FALSE

\* batch.some(...) of identifyParallelBatches
hasConflict(batch, node, nodes) ==
    \E b \in DOMAIN batch :
        \/ Includes(NodeOf(nodes, batch[b]).dependsOn, node.changeId)
        \/ Includes(node.dependsOn, batch[b])

\* index of the first batch without conflict, 0 when every batch conflicts
FirstFit(batches, node, nodes) ==
    IF \E b \in DOMAIN batches : ~hasConflict(batches[b], node, nodes)
    THEN CHOOSE b \in DOMAIN batches :
            /\ ~hasConflict(batches[b], node, nodes)
            /\ \A c \in 1..(b - 1) : hasConflict(batches[c], node, nodes)
    ELSE 0

RECURSIVE BatchLoop(_, _, _, _, _)
BatchLoop(batches, completed, nodes, executionOrder, k) ==
    IF k > Len(executionOrder) THEN batches
    ELSE LET changeId == executionOrder[k] IN
         IF changeId \notin NodeIds(nodes)
         THEN BatchLoop(batches, completed, nodes, executionOrder, k + 1)
         ELSE LET node == NodeOf(nodes, changeId)
                  canRun == \A d \in DOMAIN node.dependsOn : node.dependsOn[d] \in completed
                  b == FirstFit(batches, node, nodes)
                  next == IF ~canRun THEN batches
                          ELSE IF b = 0 THEN Append(batches, <<changeId>>)
                          ELSE [batches EXCEPT ![b] = Append(@, changeId)]
              IN BatchLoop(next, completed \cup {changeId}, nodes, executionOrder, k + 1)

identifyParallelBatches(nodes, executionOrder) ==
    BatchLoop(<<>>, {}, nodes, executionOrder, 1)

EmptyPlan == [changes |-> <<>>, executionOrder |-> <<>>, parallelBatches |-> <<>>]

\* the plan returned by buildExecutionPlan when topologicalSort does not throw
buildExecutionPlan(cs) ==
    LET nodes == MakeNodes(cs)
        executionOrder == topologicalSort(nodes).sorted
    IN [changes |-> nodes,
        executionOrder |-> executionOrder,
        parallelBatches |-> identifyParallelBatches(nodes, executionOrder)]

\* errors of validateExecutionPlan; an entry stands for the message
\* `Change ${node} depends on ${dep}, but ${dep} is not in the batch.`
RECURSIVE ErrorsOfNode(_, _, _)
ErrorsOfNode(node, j, changeIds) ==
    IF j > Len(node.dependsOn) THEN <<>>
    ELSE (IF node.dependsOn[j] \notin changeIds
          THEN <<[node |-> node.changeId, dep |-> node.dependsOn[j]]>>
          ELSE <<>>) \o ErrorsOfNode(node, j + 1, changeIds)

RECURSIVE ErrorsFrom(_, _)
ErrorsFrom(nodes, k) ==
    IF k > Len(nodes) THEN <<>>
    ELSE ErrorsOfNode(nodes[k], 1, NodeIds(nodes)) \o ErrorsFrom(nodes, k + 1)

validateExecutionPlan(p) ==
    LET errors == ErrorsFrom(p.changes, 1)
    IN [valid |-> Len(errors) = 0, errors |-> errors]

NoValidation == [valid |-> FALSE, errors |-> <<>>]

\* ---- swarmCoordinator (configGenerator.ts) ----

\* executeExecutionPlan calls executeParallelBatch(readyNodes, swarmState):
\* the third parameter takes its default
waitForCompletion == FALSE

\* error.message recorded on a failed node (its text comes from the thrown Error)
ErrorMessage == "Error"

NoResult == [success |-> FALSE, completedChanges |-> <<>>, failedChanges |-> <<>>]

NodeIdx == 1..MaxInput

\* indices (in plan.changes order) of the nodes of batch b
BatchNodes(p, b) ==
    {k \in DOMAIN p.changes : Includes(p.parallelBatches[b], p.changes[k].changeId)}

\* mutant: the dependency gate lets every node through
depsReadyAlways(node, completed) == TRUE

\* node.dependsOn.every((dep) => completedChanges.includes(dep))
depsReady(node, completed) ==
    \A d \in DOMAIN node.dependsOn : Includes(completed, node.dependsOn[d])

\* mutant: the ids of the nodes in K are appended whatever their status
RECURSIVE PushWithStatusAny(_, _, _, _, _)
PushWithStatusAny(acc, nodes, K, st, k) ==
    IF k > Len(nodes) THEN acc
    ELSE PushWithStatusAny(
            IF k \in K THEN Append(acc, nodes[k].changeId) ELSE acc,
            nodes, K, st, k + 1)

\* ids of the nodes in K having status st, in plan.changes order, appended to acc
RECURSIVE PushWithStatus(_, _, _, _, _)
PushWithStatus(acc, nodes, K, st, k) ==
    IF k > Len(nodes) THEN acc
    ELSE PushWithStatus(
            IF k \in K /\ nodes[k].status = st THEN Append(acc, nodes[k].changeId) ELSE acc,
            nodes, K, st, k + 1)

\* catch of executeExecutionPlan:
\* plan.changes.filter((n) => !completedChanges.includes(n.changeId)).map((n) => n.changeId)
RECURSIVE NotCompleted(_, _, _)
NotCompleted(nodes, completed, k) ==
    IF k > Len(nodes) THEN <<>>
    ELSE (IF Includes(completed, nodes[k].changeId) THEN <<>> ELSE <<nodes[k].changeId>>)
         \o NotCompleted(nodes, completed, k + 1)

\* ---- mcpBridge: waitForTaskCompletion ----
\* no getTaskStatus has returned yet
NoTaskInfo == [status |-> "none", description |-> "", at |-> 0]

\* waitForTaskCompletion has not returned
NoWaitResult == [success |-> FALSE, finalStatus |-> "none"]

\* TaskInfo.status
TaskStatuses == {"pending", "in_progress", "completed", "failed"}

\* what a call of getTaskStatus can end in: the remote service reports one of the
\* statuses, or the call throws inside getTaskStatus
PollOutcomes == TaskStatuses \cup {"throws"}

\* getTaskStatus: the TaskInfo returned; its catch turns an error into status 'failed'
\* with description 'Error checking status'
getTaskStatus(o) ==
    IF o = "throws"
    THEN [status |-> "failed", description |-> "Error checking status"]
    ELSE [status |-> o, description |-> "Task in progress"]

\* mutant: the clock stands still
TickStopped(t, d) == t

\* the clock is only compared with timeoutMs: values beyond every timeout are one
Tick(t, d) == IF t + d > MaxTimeout THEN MaxTimeout + 1 ELSE t + d

\* mutant: the timeout is reported as a failure of the task
TimeoutResultFailed == [success |-> FALSE, finalStatus |-> "failed"]

\* waitForTaskCompletion, after the loop: return {success: false, finalStatus: 'timeout', error}
TimeoutResult == [success |-> FALSE, finalStatus |-> "timeout"]

Init ==
    /\ changes = <<>>
    /\ pc = "loading"
    /\ plan = EmptyPlan
    /\ validation = NoValidation
    /\ swarmState = [status |-> "none", agents |-> <<>>]
    /\ i = 0
    /\ completedChanges = <<>>
    /\ failedChanges = <<>>
    /\ exec = [k \in NodeIdx |-> "none"]
    /\ taskOutcome = [k \in NodeIdx |-> "none"]
    /\ result = NoResult
    /\ wpc = "idle"
    /\ timeoutMs = 0
    /\ pollIntervalMs = 0
    /\ elapsed = 0
    /\ taskInfo = NoTaskInfo
    /\ calls = {}
    /\ waitResult = NoWaitResult

\* batchCommand: loadChange(changeId) for the next change id of the command line
LoadChange ==
    /\ pc = "loading"
    /\ Len(changes) + SumLen(changes, 1) < MaxInput
    /\ changes' = Append(changes, [changeId |-> Len(changes) + 1, requires |-> <<>>])
    /\ UNCHANGED <<pc, plan, validation, swarmState, i, completedChanges,
                   failedChanges, exec, taskOutcome, result>>
    /\ UNCHANGED waitVars

\* the proposal of change c has one more "Requires: d" line
ProposalRequires(c, d) ==
    /\ pc = "loading"
    /\ c \in DOMAIN changes
    /\ d \in 0..Len(changes)
    /\ Len(changes) + SumLen(changes, 1) < MaxInput
    /\ changes' = [changes EXCEPT ![c].requires = Append(@, d)]
    /\ UNCHANGED <<pc, plan, validation, swarmState, i, completedChanges,
                   failedChanges, exec, taskOutcome, result>>
    /\ UNCHANGED waitVars

\* batchCommand step 2: buildExecutionPlan(changes); a throw ends the command
BuildExecutionPlan ==
    /\ pc = "loading"
    /\ Len(changes) > 0
    /\ IF topologicalSort(MakeNodes(changes)).threw
       THEN /\ pc' = "cycleError"
            /\ UNCHANGED plan
       ELSE /\ pc' = "planned"
            /\ plan' = buildExecutionPlan(changes)
    /\ UNCHANGED <<changes, validation, swarmState, i, completedChanges,
                   failedChanges, exec, taskOutcome, result>>
    /\ UNCHANGED waitVars

\* mutant: the validation errors are printed and the run goes on
ValidateExecutionPlanContinues ==
    /\ pc = "planned"
    /\ validation' = validateExecutionPlan(plan)
    /\ pc' = "validated"
    /\ UNCHANGED <<changes, plan, swarmState, i, completedChanges,
                   failedChanges, exec, taskOutcome, result>>
    /\ UNCHANGED waitVars

\* batchCommand step 3: validateExecutionPlan(plan); process.exit(1) if invalid
ValidateExecutionPlan ==
    /\ pc = "planned"
    /\ validation' = validateExecutionPlan(plan)
    /\ pc' = IF validation'.valid THEN "validated" ELSE "invalid"
    /\ UNCHANGED <<changes, plan, swarmState, i, completedChanges,
                   failedChanges, exec, taskOutcome, result>>
    /\ UNCHANGED waitVars

\* mutant: a failed initialization is logged and the run goes on
InitializeSwarmSwallowed(ok) ==
    /\ pc = "validated"
    /\ swarmState' = [swarmState EXCEPT !.status = IF ok THEN "running" ELSE "failed"]
    /\ pc' = "batchLoop"
    /\ i' = 1
    /\ UNCHANGED <<changes, plan, validation, completedChanges,
                   failedChanges, exec, taskOutcome, result>>
    /\ UNCHANGED waitVars

\* executeExecutionPlan: const swarmState = await initializeSwarm('hierarchical')
InitializeSwarm(ok) ==
    /\ pc = "validated"
    /\ IF ok
       THEN /\ swarmState' = [swarmState EXCEPT !.status = "running"]
            /\ pc' = "batchLoop"
            /\ i' = 1
       ELSE /\ swarmState' = [swarmState EXCEPT !.status = "failed"]
            /\ pc' = "initError"
            /\ UNCHANGED i
    /\ UNCHANGED <<changes, plan, validation, completedChanges,
                   failedChanges, exec, taskOutcome, result>>
    /\ UNCHANGED waitVars

\* head of the batch loop: dependency gate of batch i, readyNodes filter
GateBatch ==
    /\ pc = "batchLoop"
    /\ i <= Len(plan.parallelBatches)
    /\ LET B == BatchNodes(plan, i)
           gated == [k \in DOMAIN plan.changes |->
                        IF k \in B
                        THEN [plan.changes[k] EXCEPT !.status =
                                IF depsReady(plan.changes[k], completedChanges)
                                THEN "ready" ELSE "blocked"]
                        ELSE plan.changes[k]]
       IN /\ plan' = [plan EXCEPT !.changes = gated]
          /\ IF \E k \in B : gated[k].status = "ready"
             THEN pc' = "spawning" /\ UNCHANGED i
             ELSE pc' = "batchLoop" /\ i' = i + 1
    /\ UNCHANGED <<changes, validation, swarmState, completedChanges,
                   failedChanges, exec, taskOutcome, result>>
    /\ UNCHANGED waitVars

ReadyNodes == {k \in BatchNodes(plan, i) : plan.changes[k].status = "ready"}

\* executeParallelBatch: spawnAgentsParallel resolves.  On failure the Error leaves
\* executeParallelBatch and is caught by the catch of executeExecutionPlan.  On
\* success the agents are recorded and every executeChange call runs up to its
\* first await (orchestrateTask); generateWorkBrief / saveWorkBrief may throw
\* for the nodes in briefThrows, which the catch handlers mark failed.
SpawnAgentsParallel(ok, briefThrows) ==
    /\ pc = "spawning"
    /\ briefThrows \subseteq ReadyNodes
    /\ IF ok
       THEN /\ swarmState' = [swarmState EXCEPT !.agents =
                                PushWithStatus(@, plan.changes, ReadyNodes, "ready", 1)]
            /\ plan' = [plan EXCEPT !.changes =
                          [k \in DOMAIN plan.changes |->
                              IF k \in briefThrows
                              THEN [plan.changes[k] EXCEPT !.status = "failed",
                                                           !.error = ErrorMessage]
                              ELSE IF k \in ReadyNodes
                              THEN [plan.changes[k] EXCEPT !.status = "in-progress"]
                              ELSE plan.changes[k]]]
            /\ exec' = [k \in NodeIdx |->
                          IF k \in briefThrows THEN "settled"
                          ELSE IF k \in ReadyNodes THEN "awaiting"
                          ELSE exec[k]]
            /\ pc' = "executing"
            /\ UNCHANGED result
       ELSE /\ briefThrows = {}
            /\ result' = [success |-> FALSE,
                          completedChanges |-> completedChanges,
                          failedChanges |-> NotCompleted(plan.changes, completedChanges, 1)]
            /\ pc' = "aborted"
            /\ UNCHANGED <<swarmState, plan, exec>>
    /\ UNCHANGED <<changes, validation, i, completedChanges, failedChanges, taskOutcome>>
    /\ UNCHANGED waitVars

\* mutant: the resumed executeChange writes the statuses back from a copy of the
\* nodes taken when the batch was started, undoing what its siblings recorded
OrchestrateTaskReturnsStale(k, ok, completion) ==
    /\ pc = "executing"
    /\ k \in DOMAIN plan.changes
    /\ exec[k] = "awaiting"
    /\ plan' = [plan EXCEPT !.changes =
                  [m \in DOMAIN plan.changes |->
                      IF m = k /\ ~ok
                      THEN [plan.changes[m] EXCEPT !.status = "failed", !.error = ErrorMessage]
                      ELSE IF m \in BatchNodes(plan, i) /\ exec[m] # "none"
                      THEN [plan.changes[m] EXCEPT !.status = "in-progress", !.error = ""]
                      ELSE plan.changes[m]]]
    /\ taskOutcome' = [taskOutcome EXCEPT ![k] =
                        IF ~ok THEN "none"
                        ELSE IF completion THEN "completed" ELSE "failed"]
    /\ exec' = [exec EXCEPT ![k] = "settled"]
    /\ UNCHANGED <<changes, pc, validation, swarmState, i, completedChanges,
                   failedChanges, result>>
    /\ UNCHANGED waitVars

\* executeChange of node k resumes after await orchestrateTask(...).  completion
\* is how the submitted task ends in the remote service (TRUE: it completes,
\* FALSE: it fails or never terminates in time), which is what
\* waitForTaskCompletion would report; it is consulted only when waitForCompletion
OrchestrateTaskReturns(k, ok, completion) ==
    /\ pc = "executing"
    /\ k \in DOMAIN plan.changes
    /\ exec[k] = "awaiting"
    /\ plan' = [plan EXCEPT !.changes[k] =
                  IF ok
                  THEN IF waitForCompletion
                       THEN IF completion
                            THEN [@ EXCEPT !.status = "completed"]
                            ELSE [@ EXCEPT !.status = "failed", !.error = ErrorMessage]
                       ELSE [@ EXCEPT !.status = "in-progress"]
                  ELSE [@ EXCEPT !.status = "failed", !.error = ErrorMessage]]
    /\ taskOutcome' = [taskOutcome EXCEPT ![k] =
                        IF ~ok THEN "none"
                        ELSE IF completion THEN "completed" ELSE "failed"]
    /\ exec' = [exec EXCEPT ![k] = "settled"]
    /\ UNCHANGED <<changes, pc, validation, swarmState, i, completedChanges,
                   failedChanges, result>>
    /\ UNCHANGED waitVars

\* mutant: the batch step goes on as soon as one execution has resolved
TrackResultsRace ==
    /\ pc = "executing"
    /\ LET R == {k \in BatchNodes(plan, i) : exec[k] # "none"} IN
        /\ \E k \in R : exec[k] = "settled"
        /\ completedChanges' = PushWithStatus(completedChanges, plan.changes, R, "completed", 1)
        /\ failedChanges' = PushWithStatus(failedChanges, plan.changes, R, "failed", 1)
    /\ i' = i + 1
    /\ pc' = "batchLoop"
    /\ UNCHANGED <<changes, plan, validation, swarmState, exec, taskOutcome, result>>
    /\ UNCHANGED waitVars

\* await Promise.all(executions) resolves; "Track results"; next batch
TrackResults ==
    /\ pc = "executing"
    /\ LET R == {k \in BatchNodes(plan, i) : exec[k] # "none"} IN
        /\ \A k \in R : exec[k] = "settled"
        /\ completedChanges' = PushWithStatus(completedChanges, plan.changes, R, "completed", 1)
        /\ failedChanges' = PushWithStatus(failedChanges, plan.changes, R, "failed", 1)
    /\ i' = i + 1
    /\ pc' = "batchLoop"
    /\ UNCHANGED <<changes, plan, validation, swarmState, exec, taskOutcome, result>>
    /\ UNCHANGED waitVars

\* the batch loop is over: the BatchExecutionResult of the normal path
ReturnResult ==
    /\ pc = "batchLoop"
    /\ i > Len(plan.parallelBatches)
    /\ result' = [success |-> Len(failedChanges) = 0,
                  completedChanges |-> completedChanges,
                  failedChanges |-> failedChanges]
    /\ pc' = "returned"
    /\ UNCHANGED <<changes, plan, validation, swarmState, i, completedChanges,
                   failedChanges, exec, taskOutcome>>
    /\ UNCHANGED waitVars

Next ==
    \/ LoadChange
    \/ \E c \in NodeIdx, d \in 0..MaxInput : ProposalRequires(c, d)
    \/ BuildExecutionPlan
    \/ ValidateExecutionPlan
    \/ \E ok \in BOOLEAN : InitializeSwarm(ok)
    \/ GateBatch
    \/ \E ok \in BOOLEAN, briefThrows \in SUBSET NodeIdx : SpawnAgentsParallel(ok, briefThrows)
    \/ \E k \in NodeIdx, ok \in BOOLEAN, completion \in BOOLEAN :
          OrchestrateTaskReturns(k, ok, completion)
    \/ TrackResults
    \/ ReturnResult

Spec == Init /\ [][Next]_vars

\* ---- swarmCoordinator: destroySwarm, called by a client after the run ----
\* mutant: the failure of the remote call is rethrown
DestroySwarmRethrows(ok) ==
    /\ pc \in {"returned", "aborted"}
    /\ swarmState.status = "running"
    /\ swarmState' = [swarmState EXCEPT !.status = IF ok THEN "completed" ELSE "failed"]
    /\ pc' = IF ok THEN pc ELSE "destroyError"
    /\ UNCHANGED <<changes, plan, validation, i, completedChanges,
                   failedChanges, exec, taskOutcome, result>>
    /\ UNCHANGED waitVars

\* destroySwarm(swarmState): await mcpBridge.destroySwarm(swarmId); status 'completed'
\* on success; on a failure the error is thrown inside the try, caught and logged, and
\* status is set to 'failed'
DestroySwarm(ok) ==
    /\ pc \in {"returned", "aborted"}
    /\ swarmState.status = "running"
    /\ swarmState' = [swarmState EXCEPT !.status = IF ok THEN "completed" ELSE "failed"]
    /\ UNCHANGED <<changes, pc, plan, validation, i, completedChanges,
                   failedChanges, exec, taskOutcome, result>>
    /\ UNCHANGED waitVars

NextDestroy ==
    \/ Next
    \/ \E ok \in BOOLEAN : DestroySwarm(ok)

SpecDestroy == Init /\ [][NextDestroy]_vars

\* ---- mcpBridge: waitForTaskCompletion, called on its own ----
batchVars == <<changes, pc, plan, validation, swarmState, i, completedChanges,
               failedChanges, exec, taskOutcome, result>>

\* waitForTaskCompletion(taskId, timeoutMs, pollIntervalMs): const startTime = Date.now()
WaitForTaskCompletion(t, p) ==
    /\ wpc = "idle"
    /\ timeoutMs' = t
    /\ pollIntervalMs' = p
    /\ elapsed' = 0
    /\ wpc' = "loopTest"
    /\ UNCHANGED <<taskInfo, calls, waitResult>>
    /\ UNCHANGED batchVars

\* while (Date.now() - startTime < timeoutMs): enter getTaskStatus, or leave the loop
\* and return the timeout result
LoopTest ==
    /\ wpc = "loopTest"
    /\ IF elapsed < timeoutMs
       THEN /\ wpc' = "polling"
            /\ calls' = calls \cup {"task_status"}
            /\ UNCHANGED waitResult
       ELSE /\ wpc' = "done"
            /\ waitResult' = TimeoutResult
            /\ UNCHANGED calls
    /\ UNCHANGED <<timeoutMs, pollIntervalMs, elapsed, taskInfo>>
    /\ UNCHANGED batchVars

\* mutant: a 'failed' status is treated as still working
GetTaskStatusReturnsKeepsPolling(o, d) ==
    /\ wpc = "polling"
    /\ elapsed' = Tick(elapsed, d)
    /\ taskInfo' = [status |-> getTaskStatus(o).status,
                    description |-> getTaskStatus(o).description,
                    at |-> Tick(elapsed, d)]
    /\ IF taskInfo'.status = "completed"
       THEN /\ wpc' = "results"
            /\ calls' = calls \cup {"task_results"}
            /\ UNCHANGED waitResult
       ELSE /\ wpc' = "sleeping"
            /\ UNCHANGED <<calls, waitResult>>
    /\ UNCHANGED <<timeoutMs, pollIntervalMs>>
    /\ UNCHANGED batchVars

\* const taskInfo = await getTaskStatus(taskId, config), d ticks later, and the two
\* tests of taskInfo.status
GetTaskStatusReturns(o, d) ==
    /\ wpc = "polling"
    /\ elapsed' = Tick(elapsed, d)
    /\ taskInfo' = [status |-> getTaskStatus(o).status,
                    description |-> getTaskStatus(o).description,
                    at |-> Tick(elapsed, d)]
    /\ IF taskInfo'.status = "completed"
       THEN /\ wpc' = "results"
            /\ calls' = calls \cup {"task_results"}
            /\ UNCHANGED waitResult
       ELSE IF taskInfo'.status = "failed"
       THEN /\ wpc' = "done"
            /\ waitResult' = [success |-> FALSE, finalStatus |-> "failed"]
            /\ UNCHANGED calls
       ELSE /\ wpc' = "sleeping"
            /\ UNCHANGED <<calls, waitResult>>
    /\ UNCHANGED <<timeoutMs, pollIntervalMs>>
    /\ UNCHANGED batchVars

\* const results = await getTaskResults(taskId, config); return {success: true, ...}
GetTaskResultsReturns ==
    /\ wpc = "results"
    /\ wpc' = "done"
    /\ waitResult' = [success |-> TRUE, finalStatus |-> "completed"]
    /\ UNCHANGED <<timeoutMs, pollIntervalMs, elapsed, taskInfo, calls>>
    /\ UNCHANGED batchVars

\* await new Promise(resolve => setTimeout(resolve, pollIntervalMs)): the timer
\* fires pollIntervalMs ticks later or up to MaxDelay ticks after that
SleepDone(d) ==
    /\ wpc = "sleeping"
    /\ elapsed' = Tick(elapsed, pollIntervalMs + d)
    /\ wpc' = "loopTest"
    /\ UNCHANGED <<timeoutMs, pollIntervalMs, taskInfo, calls, waitResult>>
    /\ UNCHANGED batchVars

NextWait ==
    \/ \E t \in (-1)..MaxTimeout, p \in 0..MaxInterval : WaitForTaskCompletion(t, p)
    \/ LoopTest
    \/ \E o \in PollOutcomes, d \in 0..MaxDelay : GetTaskStatusReturns(o, d)
    \/ GetTaskResultsReturns
    \/ \E d \in 0..MaxDelay : SleepDone(d)

SpecWait == Init /\ [][NextWait]_vars

\* a step of the wait loop during which the clock advances
TimePasses ==
    \/ \E d \in 1..MaxDelay : SleepDone(d)
    \/ \E o \in PollOutcomes, d \in 1..MaxDelay : GetTaskStatusReturns(o, d)

\* every awaited call of the bridge and every timer settles, and the clock does
\* not stand still over infinitely many turns of the loop
SpecWaitFair ==
    /\ SpecWait
    /\ WF_vars(LoopTest)
    /\ WF_vars(\E o \in PollOutcomes, d \in 0..MaxDelay : GetTaskStatusReturns(o, d))
    /\ WF_vars(GetTaskResultsReturns)
    /\ WF_vars(\E d \in 0..MaxDelay : SleepDone(d))
    /\ SF_vars(TimePasses)

\* ---- vocabulary of the properties ----

\* buildExecutionPlan has returned a plan
PlanReturned == pc \notin {"loading", "cycleError"}

SuppliedIds == {changes[k].changeId : k \in DOMAIN changes}

DependsOnOf(id) == NodeOf(plan.changes, id).dependsOn

Occurrences(s, x) == Cardinality({k \in DOMAIN s : s[k] = x})

IndexIn(s, x) == CHOOSE k \in DOMAIN s : s[k] = x

\* dependency edge between supplied items: p is a prerequisite of d
RequiresEdge(p, d) ==
    /\ p \in SuppliedIds
    /\ d \in SuppliedIds
    /\ Includes(changes[d].requires, p)

\* a chain of at most n dependency edges leads from p to d
RECURSIVE EdgePath(_, _, _)
EdgePath(p, d, n) ==
    \/ RequiresEdge(p, d)
    \/ /\ n > 1
       /\ \E m \in SuppliedIds : RequiresEdge(p, m) /\ EdgePath(m, d, n - 1)

\* d depends on p directly or transitively
DependsTransitively(p, d) == EdgePath(p, d, Len(changes))

HasCycle == \E x \in SuppliedIds : DependsTransitively(x, x)

\* some proposal names an id that is no loaded change
HasDangling ==
    \E k \in DOMAIN changes : \E j \in DOMAIN changes[k].requires :
        changes[k].requires[j] \notin SuppliedIds

\* batches that contain id
BatchesOf(id) == {b \in DOMAIN plan.parallelBatches : Includes(plan.parallelBatches[b], id)}

\* ---- C1 ----
\* C1: in every plan returned by buildExecutionPlan, for every dependency edge
\* (p, d) between supplied items p comes strictly before d in executionOrder, and
\* executionOrder contains every supplied id exactly once and nothing else.
C1_TopologicalOrder ==
    PlanReturned =>
        /\ Len(plan.executionOrder) = Len(changes)
        /\ \A x \in SuppliedIds : Occurrences(plan.executionOrder, x) = 1
        /\ \A p \in SuppliedIds, d \in SuppliedIds :
              Includes(DependsOnOf(d), p) =>
                  IndexIn(plan.executionOrder, p) < IndexIn(plan.executionOrder, d)

\* a plan was returned for an input in which a prerequisite was loaded after its
\* dependent, so the sort had to reorder
C1_Witness ==
    /\ PlanReturned
    /\ \E p \in SuppliedIds, d \in SuppliedIds : p > d /\ Includes(DependsOnOf(d), p)

\* ---- C2 ----
\* C2: whenever the dependency graph over the supplied items has a cycle (of any
\* length, self-edge included), buildExecutionPlan throws the circular-dependency
\* error and no plan object exists (no partial order, no partial batches).
C2_CycleRejected ==
    (pc # "loading" /\ HasCycle) => (pc = "cycleError" /\ plan = EmptyPlan)

\* the build was rejected for a cycle through two distinct changes
C2_Witness ==
    /\ pc = "cycleError"
    /\ \E a \in SuppliedIds, b \in SuppliedIds :
          a # b /\ RequiresEdge(a, b) /\ RequiresEdge(b, a)

\* ---- C3 ----
\* C3: in every returned plan, for every dependency edge (p, d) between supplied
\* items, the batch holding p has a strictly smaller index than the batch holding d.
C3_BatchesRespectOrder ==
    PlanReturned =>
        \A p \in SuppliedIds, d \in SuppliedIds :
            Includes(DependsOnOf(d), p) =>
                \A bp \in BatchesOf(p), bd \in BatchesOf(d) : bp < bd

\* ---- C4 ----
\* C4: in every returned plan, two ids placed in the same batch do not depend
\* directly on one another, in either direction.
C4_BatchConflictFree ==
    PlanReturned =>
        \A b \in DOMAIN plan.parallelBatches :
            \A j \in DOMAIN plan.parallelBatches[b], k \in DOMAIN plan.parallelBatches[b] :
                j # k =>
                    ~Includes(DependsOnOf(plan.parallelBatches[b][j]), plan.parallelBatches[b][k])

\* a returned plan with a shared batch and a batch that had to be opened for a conflict
C4_Witness ==
    /\ PlanReturned
    /\ Len(plan.parallelBatches) >= 2
    /\ \E b \in DOMAIN plan.parallelBatches : Len(plan.parallelBatches[b]) >= 2

\* ---- C5 ----
\* C5: in every returned plan, parallelBatches is a partition of executionOrder:
\* every id of executionOrder is in exactly one batch (once), no batch is empty and
\* no batch holds an id that is not in executionOrder; also when some node
\* depends on an id that is not supplied.
C5_BatchesPartitionOrder ==
    PlanReturned =>
        /\ \A x \in Range(plan.executionOrder) :
              /\ Cardinality(BatchesOf(x)) = 1
              /\ \A b \in BatchesOf(x) : Occurrences(plan.parallelBatches[b], x) = 1
        /\ \A b \in DOMAIN plan.parallelBatches :
              /\ Len(plan.parallelBatches[b]) > 0
              /\ Range(plan.parallelBatches[b]) \subseteq Range(plan.executionOrder)

\* ---- C6 ----
\* (node, missing id) pairs of the plan
MissingPairs ==
    {e \in SuppliedIds \X {NotInBatch} : Includes(DependsOnOf(e[1]), e[2])}

Validated == pc \notin {"loading", "cycleError", "planned"}

\* C6: validateExecutionPlan returns valid=false exactly when some node depends on an
\* id that is no node of the plan; it records one error per (node, missing id)
\* pair, naming both ids; with no such pair it returns valid=true and no error.
C6_ValidationExact ==
    Validated =>
        /\ validation.valid = (MissingPairs = {})
        /\ Len(validation.errors) = Cardinality(MissingPairs)
        /\ \A e \in MissingPairs :
              Occurrences(validation.errors, [node |-> e[1], dep |-> e[2]]) = 1
        /\ \A j \in DOMAIN validation.errors :
              <<validation.errors[j].node, validation.errors[j].dep>> \in MissingPairs

\* ---- C7 ----
\* C7: when a supplied item depends on an id that is not supplied and the graph
\* over the supplied items is acyclic, buildExecutionPlan does not fail and the
\* executionOrder of its plan contains every supplied id.
C7_DanglingStillPlanned ==
    (pc # "loading" /\ HasDangling /\ ~HasCycle) =>
        /\ PlanReturned
        /\ SuppliedIds \subseteq Range(plan.executionOrder)

\* ---- C8 ----
Finished == pc \in {"returned", "aborted"}

\* C8: every node whose worker was spawned, whose task was submitted and whose
\* task terminates successfully has status 'completed' and is listed in
\* completedChanges when executeExecutionPlan returns.
C8_SuccessIsCompleted ==
    Finished =>
        \A k \in DOMAIN plan.changes :
            (Includes(swarmState.agents, plan.changes[k].changeId)
                /\ taskOutcome[k] = "completed") =>
                    /\ plan.changes[k].status = "completed"
                    /\ Includes(result.completedChanges, plan.changes[k].changeId)

\* ---- C9 ----
StatusOf(id) == NodeOf(plan.changes, id).status

\* id depends, directly or transitively, on a node that failed
BehindFailure(id) ==
    \E f \in SuppliedIds : StatusOf(f) = "failed" /\ DependsTransitively(f, id)

\* C9: when executeExecutionPlan returns, every node that depends (directly or
\* transitively) on a failed node is 'blocked' and in neither result list, and every
\* node that depends on no failed node and whose own task succeeds is 'completed'
\* and listed in completedChanges.
C9_FailureIsolation ==
    pc = "returned" =>
        \A k \in DOMAIN plan.changes :
            LET id == plan.changes[k].changeId IN
            /\ BehindFailure(id) =>
                  /\ plan.changes[k].status = "blocked"
                  /\ ~Includes(result.completedChanges, id)
                  /\ ~Includes(result.failedChanges, id)
            /\ (~BehindFailure(id) /\ taskOutcome[k] = "completed") =>
                  /\ plan.changes[k].status = "completed"
                  /\ Includes(result.completedChanges, id)

\* ---- C10 ----
\* C10: in every reachable state, a node has status 'ready' only if every id in its
\* dependsOn is the id of a node whose status is 'completed'.
C10_ReadyOnlyIfDepsCompleted ==
    \A k \in DOMAIN plan.changes :
        plan.changes[k].status = "ready" =>
            \A j \in DOMAIN plan.changes[k].dependsOn :
                /\ plan.changes[k].dependsOn[j] \in SuppliedIds
                /\ StatusOf(plan.changes[k].dependsOn[j]) = "completed"

\* the gate of a batch has run and a node came out 'ready'
C10_Witness ==
    /\ pc = "spawning"
    /\ \E k \in DOMAIN plan.changes : plan.changes[k].status = "ready"

\* ---- C11 ----
\* node k has a dependency that is not (yet) a completed node
HasUnmetDependency(k) ==
    \E j \in DOMAIN plan.changes[k].dependsOn :
        \/ plan.changes[k].dependsOn[j] \notin SuppliedIds
        \/ StatusOf(plan.changes[k].dependsOn[j]) # "completed"

\* the dependency gate of the batch of node k has run
BatchProcessed(k) ==
    \E b \in BatchesOf(plan.changes[k].changeId) :
        \/ b < i
        \/ b = i /\ pc \in {"spawning", "executing", "aborted"}

\* a worker was spawned for node k or its executeChange was started
Started(k) ==
    \/ Includes(swarmState.agents, plan.changes[k].changeId)
    \/ exec[k] # "none"
    \/ taskOutcome[k] # "none"

\* C11: a node with a dependency that failed, was blocked or was never executed is
\* 'blocked' once its batch is processed and never gets further: it is never
\* 'ready' or 'in-progress', no worker is spawned and no task is submitted for it.
C11_UnmetDependencyBlocks ==
    \A k \in DOMAIN plan.changes :
        HasUnmetDependency(k) =>
            /\ plan.changes[k].status \in {"pending", "blocked"}
            /\ ~Started(k)
            /\ BatchProcessed(k) => plan.changes[k].status = "blocked"

\* the run returned with a node blocked behind a dependency that failed
C11_Witness ==
    /\ pc = "returned"
    /\ \E k \in DOMAIN plan.changes :
          /\ plan.changes[k].status = "blocked"
          /\ \E j \in DOMAIN plan.changes[k].dependsOn :
                /\ plan.changes[k].dependsOn[j] \in SuppliedIds
                /\ StatusOf(plan.changes[k].dependsOn[j]) = "failed"

\* ---- C12 ----
\* C12: when executeExecutionPlan returns, every node is 'completed', 'failed' or
\* 'blocked'; none is left 'pending', 'ready' or 'in-progress'.
C12_FinalStatuses ==
    Finished =>
        \A k \in DOMAIN plan.changes :
            plan.changes[k].status \in {"completed", "failed", "blocked"}

\* ---- C13 ----
\* C13: no node of a later batch is gated, spawned or submitted until every node
\* attempted in an earlier batch is 'completed' or 'failed' and recorded in
\* completedChanges / failedChanges.
C13_BatchesSequential ==
    \A k \in DOMAIN plan.changes, m \in DOMAIN plan.changes :
        (/\ exec[k] # "none"
         /\ plan.changes[m].status # "pending"
         /\ \E bk \in BatchesOf(plan.changes[k].changeId),
               bm \in BatchesOf(plan.changes[m].changeId) : bk < bm) =>
            \/ /\ plan.changes[k].status = "completed"
               /\ Includes(completedChanges, plan.changes[k].changeId)
            \/ /\ plan.changes[k].status = "failed"
               /\ Includes(failedChanges, plan.changes[k].changeId)

\* ---- C14 ----
\* C14: a run that initialized the pool has destroyed it when it ends: the pool
\* state is not left 'running' after executeExecutionPlan is done.
C14_PoolDestroyed ==
    Finished => swarmState.status # "running"

\* ---- C15 ----
\* C15: if pool initialization fails the pool state is 'failed', the error reaches
\* the caller of executeExecutionPlan (no result is returned), no worker is
\* spawned, no task is submitted and every node keeps status 'pending'.
C15_InitFailureFatal ==
    swarmState.status = "failed" =>
        /\ pc = "initError"
        /\ result = NoResult
        /\ swarmState.agents = <<>>
        /\ \A k \in DOMAIN plan.changes :
              /\ plan.changes[k].status = "pending"
              /\ ~Started(k)

\* initializeSwarm failed on a plan of several nodes
C15_Witness ==
    /\ pc = "initError"
    /\ swarmState.status = "failed"
    /\ Len(plan.changes) >= 2

\* ---- C16 ----
\* the last status poll returned a terminal status at clock value below timeoutMs
TerminalBeforeTimeout ==
    taskInfo.status \in {"completed", "failed"} /\ taskInfo.at < timeoutMs

\* C16 as stated: when no status poll returns a terminal status before timeoutMs has elapsed,
\* waitForTaskCompletion returns success=false and finalStatus='timeout', and
\* no tool other than the status query is called.
C16_TimeoutWhenNoTerminalInTime ==
    (wpc = "done" /\ ~TerminalBeforeTimeout) =>
        /\ waitResult = [success |-> FALSE, finalStatus |-> "timeout"]
        /\ calls \subseteq {"task_status"}

\* C16: when no status poll returns a terminal status at all, waitForTaskCompletion
\* returns, once timeoutMs has elapsed, success=false and finalStatus='timeout'
\* and has called no tool other than the status query; a poll that returns a
\* terminal status decides the result even when it returns after timeoutMs.
C16_TimeoutWhenNoTerminal ==
    wpc = "done" =>
        /\ taskInfo.status \notin {"completed", "failed"} =>
              /\ waitResult = [success |-> FALSE, finalStatus |-> "timeout"]
              /\ elapsed >= timeoutMs
              /\ calls \subseteq {"task_status"}
        /\ taskInfo.status = "completed" =>
              waitResult = [success |-> TRUE, finalStatus |-> "completed"]
        /\ taskInfo.status = "failed" =>
              waitResult = [success |-> FALSE, finalStatus |-> "failed"]
        /\ calls \subseteq {"task_status", "task_results"}

\* the call timed out after polls that found the task still working
C16_Witness ==
    /\ wpc = "done"
    /\ waitResult = [success |-> FALSE, finalStatus |-> "timeout"]
    /\ taskInfo.status = "in_progress"
    /\ timeoutMs > 0

\* ---- C17 ----
\* the executeChange of node k was started and its submission failed, or its task
\* failed or timed out
NodeFailure(k) == exec[k] = "settled" /\ taskOutcome[k] # "completed"

\* C17: a submission failure, reported failure or timeout of one node is confined to
\* it: the node is 'failed' with its error recorded, is in failedChanges and not
\* in completedChanges, every node started with it is resolved, and every node
\* that depends on no failed node is still executed.
C17_FailureConfined ==
    pc = "returned" =>
        \A k \in DOMAIN plan.changes :
            /\ NodeFailure(k) =>
                  /\ plan.changes[k].status = "failed"
                  /\ plan.changes[k].error # ""
                  /\ Includes(result.failedChanges, plan.changes[k].changeId)
                  /\ ~Includes(result.completedChanges, plan.changes[k].changeId)
            /\ exec[k] \in {"none", "settled"}
            /\ ~BehindFailure(plan.changes[k].changeId) => exec[k] = "settled"

\* ---- C18 ----
\* C18: after a worker-spawn failure for the nodes of a batch, those nodes are
\* 'failed', and the nodes of later batches that do not depend on them are not
\* left unexecuted (the run goes on).
C18_SpawnFailureScoped ==
    pc = "aborted" =>
        /\ \A k \in BatchNodes(plan, i) : plan.changes[k].status \in {"failed", "blocked"}
        /\ \A m \in DOMAIN plan.changes :
              (/\ \E bm \in BatchesOf(plan.changes[m].changeId) : bm > i
               /\ \A k \in BatchNodes(plan, i) :
                     ~DependsTransitively(plan.changes[k].changeId, plan.changes[m].changeId))
                  => plan.changes[m].status # "pending"

\* ---- C19 ----
\* C19: when an exception escapes the batch loop the remaining batches are left
\* unexecuted, pool teardown is attempted, and the error is propagated to the
\* caller instead of a BatchExecutionResult being returned.
C19_AbortPropagates ==
    pc = "aborted" =>
        /\ \A m \in DOMAIN plan.changes :
              (\E bm \in BatchesOf(plan.changes[m].changeId) : bm > i) =>
                  (plan.changes[m].status = "pending" /\ ~Started(m))
        /\ swarmState.status # "running"
        /\ result = NoResult

\* ---- C20 ----
\* C20: on every exit path of executeExecutionPlan an id is in failedChanges iff its node is
\* 'failed' and in completedChanges iff its node is 'completed'.
C20_ResultFromStatuses ==
    Finished =>
        \A k \in DOMAIN plan.changes :
            /\ Includes(result.failedChanges, plan.changes[k].changeId)
                  <=> plan.changes[k].status = "failed"
            /\ Includes(result.completedChanges, plan.changes[k].changeId)
                  <=> plan.changes[k].status = "completed"

\* ---- C21 ----
\* C21: completedChanges and failedChanges have no id in common, while the run
\* tracks them and in the BatchExecutionResult of the normal and of the aborted path.
C21_ListsDisjoint ==
    /\ Range(completedChanges) \cap Range(failedChanges) = {}
    /\ Finished => Range(result.completedChanges) \cap Range(result.failedChanges) = {}

\* a result was returned that lists at least one id
C21_Witness ==
    /\ Finished
    /\ Len(result.completedChanges) + Len(result.failedChanges) >= 1
    /\ \E k \in DOMAIN plan.changes : plan.changes[k].status = "in-progress"

\* ---- C22 ----
\* C22: once validateExecutionPlan has reported an error for the plan, batchCommand
\* stops: the pool is never initialized, no worker is spawned, no task is
\* submitted, no node leaves 'pending' and no result is produced.
C22_InvalidPlanNotExecuted ==
    (Validated /\ ~validation.valid) =>
        /\ pc = "invalid"
        /\ swarmState = [status |-> "none", agents |-> <<>>]
        /\ result = NoResult
        /\ \A k \in DOMAIN plan.changes :
              plan.changes[k].status = "pending" /\ ~Started(k)

\* batchCommand stopped on a plan with a reported validation error
C22_Witness ==
    /\ pc = "invalid"
    /\ Len(validation.errors) >= 1
    /\ Len(plan.changes) >= 2

\* ---- C23 ----
\* C23: a failed pool destroy after the run only marks the pool 'failed': the run
\* stays returned (nothing is thrown) and the node statuses, completedChanges,
\* failedChanges, the result and the agents list are what they were.
C23_DestroyFailureHarmless ==
    [][(Finished /\ swarmState.status = "running" /\ swarmState'.status = "failed") =>
          /\ pc' = pc
          /\ plan' = plan
          /\ completedChanges' = completedChanges
          /\ failedChanges' = failedChanges
          /\ result' = result
          /\ swarmState'.agents = swarmState.agents]_vars

\* the pool destroy failed after a run that returned a result listing a failed node
C23_Witness ==
    /\ pc = "returned"
    /\ swarmState.status = "failed"
    /\ Len(result.failedChanges) >= 1

\* ---- C24 ----
\* x and y are in direct conflict: one names the other in its dependsOn
DirectConflict(x, y) == Includes(DependsOnOf(x), y) \/ Includes(DependsOnOf(y), x)

\* the members of batch b that come before x in executionOrder
EarlierMembers(b, x) ==
    {y \in Range(plan.parallelBatches[b]) :
        IndexIn(plan.executionOrder, y) < IndexIn(plan.executionOrder, x)}

\* x sits in batch b, every batch before b held a member in conflict with x when x
\* was taken, and batch b held none
PlacedFirstFit(x, b) ==
    /\ Includes(plan.parallelBatches[b], x)
    /\ \A c \in 1..(b - 1) : \E y \in EarlierMembers(c, x) : DirectConflict(x, y)
    /\ \A y \in EarlierMembers(b, x) : ~DirectConflict(x, y)

\* C24: every id of executionOrder is in exactly one batch, the lowest-indexed one
\* that held no member in direct conflict with it when the id was taken (a new
\* batch only when every existing one conflicted); and for A without
\* dependencies, B requiring A, C without dependencies the order is A, C, B and
\* the batches are [[A, C], [B]].
C24_GreedyFirstFit ==
    PlanReturned =>
        /\ \A x \in Range(plan.executionOrder) :
              /\ Cardinality(BatchesOf(x)) = 1
              /\ \A b \in BatchesOf(x) : PlacedFirstFit(x, b)
        /\ changes = <<[changeId |-> 1, requires |-> <<>>],
                       [changeId |-> 2, requires |-> <<1>>],
                       [changeId |-> 3, requires |-> <<>>]>>
              => /\ plan.executionOrder = <<1, 3, 2>>
                 /\ plan.parallelBatches = <<(<<1, 3>>), (<<2>>)>>

\* ---- C25 ----
\* the result of waitForTaskCompletion agrees with the terminal status observed
ResultFollowsStatus ==
    /\ waitResult.success => waitResult.finalStatus = "completed"
    /\ waitResult.finalStatus = "completed" =>
          (waitResult.success /\ taskInfo.status = "completed")
    /\ waitResult.finalStatus = "failed" => taskInfo.status = "failed"
    /\ (wpc = "done" /\ taskInfo.status \in {"completed", "failed"}) =>
          waitResult.finalStatus = taskInfo.status

\* no status poll is issued, and the observed status does not change, once a
\* terminal status was observed or the call has returned
NoPollAfterTerminal ==
    (taskInfo.status \in {"completed", "failed"} \/ wpc = "done") =>
        /\ wpc' # "polling"
        /\ taskInfo' = taskInfo
        /\ calls' \subseteq calls \cup {"task_results"}

\* C25: waitForTaskCompletion returns 'completed' (success) only if a poll returned
\* 'completed' and 'failed' only if a poll returned 'failed', its result is that
\* of the first terminal status observed, and after a terminal status or after
\* returning it issues no further status poll.
C25_StopsAtFirstTerminal ==
    []ResultFollowsStatus /\ [][NoPollAfterTerminal]_vars

\* the call returned 'failed' on a status reported by a poll that was not the first
\* (it returned later than one poll can take)
C25_Witness ==
    /\ wpc = "done"
    /\ waitResult = [success |-> FALSE, finalStatus |-> "failed"]
    /\ taskInfo.description = "Task in progress"
    /\ taskInfo.at > MaxDelay

\* ---- C26 ----
\* a call that has returned has returned one of the three results
ResultReturned ==
    wpc = "done" =>
        waitResult \in {[success |-> TRUE, finalStatus |-> "completed"],
                        [success |-> FALSE, finalStatus |-> "failed"],
                        [success |-> FALSE, finalStatus |-> "timeout"]}

\* a poll that threw ended the call with a result, not with an exception
ThrownPollSwallowed ==
    taskInfo.description = "Error checking status" =>
        (wpc = "done" /\ waitResult = [success |-> FALSE, finalStatus |-> "failed"])

\* a call with timeoutMs <= 0 makes no poll and returns 'timeout'
NonPositiveTimeout ==
    (wpc # "idle" /\ timeoutMs <= 0) =>
        /\ calls = {}
        /\ taskInfo = NoTaskInfo
        /\ wpc = "done" => waitResult = [success |-> FALSE, finalStatus |-> "timeout"]

\* the loop test that finds timeoutMs elapsed leaves the loop with the timeout result
ExitAtTimeout ==
    (wpc = "loopTest" /\ elapsed >= timeoutMs) =>
        (wpc' = "done" /\ waitResult' = [success |-> FALSE, finalStatus |-> "timeout"])

\* C26: every call of waitForTaskCompletion returns a result, whatever the polls
\* report ('pending', 'in_progress', or a poll that throws): when timeoutMs has
\* elapsed at the loop test the loop is left with 'timeout', a throwing poll
\* does not reach the caller as an exception, and with timeoutMs <= 0 the call
\* returns 'timeout' without polling.
C26_AlwaysTerminates ==
    /\ (wpc = "loopTest") ~> (wpc = "done")
    /\ [](ResultReturned /\ ThrownPollSwallowed /\ NonPositiveTimeout)
    /\ [][ExitAtTimeout]_vars

\* a call with the largest timeout and no pause between polls returned 'timeout'
\* after polls that found the task pending
C26_Witness ==
    /\ wpc = "done"
    /\ waitResult = [success |-> FALSE, finalStatus |-> "timeout"]
    /\ taskInfo.status = "pending"
    /\ pollIntervalMs = 0
    /\ timeoutMs = MaxTimeout

\* ---- C27 ----
\* while the executions of batch i run, every node of the batch that passed the
\* gate has been started: it is past 'ready' and its executeChange is at its
\* submission or has resolved, whatever its siblings are doing
AllSiblingsStarted ==
    pc = "executing" =>
        \A k \in BatchNodes(plan, i) :
            plan.changes[k].status # "blocked" =>
                /\ plan.changes[k].status \in {"in-progress", "completed", "failed"}
                /\ exec[k] \in {"awaiting", "settled"}
                /\ Includes(swarmState.agents, plan.changes[k].changeId)

\* an execution is pending only inside the step of its own batch
PendingOnlyInBatch ==
    \A k \in DOMAIN plan.changes :
        exec[k] = "awaiting" => (pc = "executing" /\ k \in BatchNodes(plan, i))

\* the batch step is left only when every started execution has resolved
StepAfterAllResolved ==
    (pc = "executing" /\ pc' # "executing") =>
        \A k \in BatchNodes(plan, i) : exec[k] \in {"none", "settled"}

\* C27: the ready nodes of a batch are started together, each moved to
\* 'in-progress' with its task submitted without waiting for a sibling, and the
\* batch step completes only after the executions of all siblings have resolved.
C27_FanOut ==
    [](AllSiblingsStarted /\ PendingOnlyInBatch) /\ [][StepAfterAllResolved]_vars

\* a later sibling's execution has resolved while an earlier sibling's is pending
C27_Witness ==
    /\ pc = "executing"
    /\ \E k \in BatchNodes(plan, i), m \in BatchNodes(plan, i) :
          /\ m < k
          /\ exec[k] = "settled"
          /\ exec[m] = "awaiting"
          /\ plan.changes[m].status = "in-progress"

\* ---- C28 ----
\* the status in which the execution of node k leaves it, given the outcome of its
\* submission: 'failed' when the work brief or the submission failed, else
\* 'in-progress'
OutcomeStatus(k) == IF taskOutcome[k] = "none" THEN "failed" ELSE "in-progress"

\* the nodes of the batches already tracked whose execution left them in status st
TrackedWith(st) ==
    {plan.changes[k].changeId : k \in
        {m \in DOMAIN plan.changes :
            /\ exec[m] = "settled"
            /\ OutcomeStatus(m) = st
            /\ \E b \in BatchesOf(plan.changes[m].changeId) : b < i}}

\* C28: the statuses, completedChanges, failedChanges and the agents list are
\* determined by the outcomes of the nodes alone, whatever the order in which
\* the executions of a batch resolve: each resolved node has the status of its
\* own outcome, the lists hold just the tracked nodes of that status, once each,
\* and the pool has one agent entry per started node.
C28_OrderIndependent ==
    /\ \A k \in DOMAIN plan.changes :
          /\ exec[k] = "settled" => plan.changes[k].status = OutcomeStatus(k)
          /\ Occurrences(swarmState.agents, plan.changes[k].changeId)
                = IF exec[k] = "none" THEN 0 ELSE 1
    /\ pc \in {"batchLoop", "spawning", "executing", "returned"} =>
          /\ Range(failedChanges) = TrackedWith("failed")
          /\ Range(completedChanges) = TrackedWith("completed")
          /\ Len(failedChanges) = Cardinality(Range(failedChanges))
          /\ Len(completedChanges) = Cardinality(Range(completedChanges))
    /\ pc = "returned" =>
          (result.failedChanges = failedChanges /\ result.completedChanges = completedChanges)

\* a run returned after a batch in which an earlier sibling's submission failed and
\* a later sibling's succeeded
C28_Witness ==
    /\ pc = "returned"
    /\ \E b \in DOMAIN plan.parallelBatches :
          \E k \in BatchNodes(plan, b), m \in BatchNodes(plan, b) :
              /\ k < m
              /\ plan.changes[k].status = "failed"
              /\ plan.changes[m].status = "in-progress"
              /\ Includes(result.failedChanges, plan.changes[k].changeId)
              /\ Len(swarmState.agents) >= 2

\* ---- C29 ----
\* C29: buildExecutionPlan throws the circular-dependency error only when the
\* Requires relation over the supplied changes has a cycle; for every acyclic
\* input, a repeated prerequisite id included, it returns a plan whose
\* executionOrder holds every supplied id.
C29_CycleErrorOnlyOnCycle ==
    /\ pc = "cycleError" => HasCycle
    /\ (pc # "loading" /\ ~HasCycle) =>
          (PlanReturned /\ Range(plan.executionOrder) = SuppliedIds)

\* ---- C30 ----
\* C30: whenever executeExecutionPlan returns success = true, every node of the
\* plan is 'completed' and its id is in completedChanges.
C30_SuccessMeansAllCompleted ==
    (Finished /\ result.success) =>
        \A k \in DOMAIN plan.changes :
            /\ plan.changes[k].status = "completed"
            /\ Includes(result.completedChanges, plan.changes[k].changeId)

====
